---- MODULE Spec2Model ----
(***************************************************************************)
(* Model of dunc (src/src/dunc/api.py): the file installer                 *)
(* (install_files / _copy_file) over a small symbolic filesystem, and the  *)
(* build orchestrator (main / execute / extract_function) over a small     *)
(* symbolic project descriptor.                                            *)
(***************************************************************************)
EXTENDS Integers, Sequences, FiniteSets, TLC

VARIABLES
    \* ---- file installer ----
    fs,            \* filesystem: path -> node (absent, regular file, symlink)
    dirs,          \* directories that exist
    windows,       \* platform.system() == "Windows"
    files,         \* the batch given to install_files: sequence of (root, rel)
    install_path,  \* the install_path argument of install_files
    symlink,       \* the symlink argument
    executable,    \* the executable argument
    idx,           \* position of the for loop of install_files (1-based)
    ipc,           \* "running" | "returned" | "raised"
    ierr,          \* the exception install_files raised ("none" if none)
    iout,          \* progress lines printed by _copy_file
    \* ---- orchestrator ----
    desc,          \* the parsed project descriptor: sequence of top-level nodes
    syntax_ok,     \* whether the descriptor text is valid python
    build_env,     \* REZ_BUILD_ENV is set to a non-empty value
    install_mode,  \* REZ_BUILD_INSTALL == "1"
    project_file,  \* "unset" | "missing" | "present"
    epc,           \* position inside main()/execute()
    exc,           \* the exception in flight ("none" if none)
    ns,            \* function_globals of the latest extract_function call
    executed,      \* descriptor nodes whose text was handed to exec()
    calls,         \* trace of extractions and invocations
    eout,          \* lines printed by execute()/main()
    exit_status,   \* process exit status, -1 while running
    traceback      \* an uncaught exception reached the interpreter

ivars == <<fs, dirs, windows, files, install_path, symlink, executable,
           idx, ipc, ierr, iout>>
evars == <<desc, syntax_ok, build_env, install_mode, project_file, epc, exc,
           ns, executed, calls, eout, exit_status, traceback>>
vars == <<ivars, evars>>

\* ------------------------------------------------------------------ bounds
MaxBatch == 2      \* longest batch handed to install_files
MaxTop == 2        \* most top-level statements in a descriptor

\* ------------------------------------------------------- symbolic universe
SourceRoot == "S"              \* get_source_path()
InstallRoot == "I"             \* get_install_path()
SubDir == "I/sub"              \* os.path.join(get_install_path(), "sub")
Elsewhere == "X"               \* some other directory
Dirs == {SourceRoot, InstallRoot, SubDir, Elsewhere}
Names == {"a", "b"}
Paths == Dirs \X Names

NoPath == <<"ELOOP", "">>      \* resolution failed: too many symlink levels

Absent == [t |-> "none", data |-> "", mode |-> 0, to |-> NoPath]
RegFile(d, m) == [t |-> "file", data |-> d, mode |-> m, to |-> NoPath]
Link(p) == [t |-> "link", data |-> "", mode |-> 0, to |-> p]

\* Relative paths of batch entries: a plain name, or an absolute path.
RelName(n) == [abs |-> FALSE, dir |-> "", name |-> n]
AbsPath(p) == [abs |-> TRUE, dir |-> p[1], name |-> p[2]]

\* ------------------------------------------------------- permission bits
ExecBits == 73                 \* 0o111

RECURSIVE BitOr(_, _)
BitOr(a, b) ==
    IF a = 0 THEN b
    ELSE IF b = 0 THEN a
    ELSE (IF (a % 2) = 1 \/ (b % 2) = 1 THEN 1 ELSE 0)
         + 2 * BitOr(a \div 2, b \div 2)

RECURSIVE BitAnd(_, _)
BitAnd(a, b) ==
    IF a = 0 \/ b = 0 THEN 0
    ELSE (IF (a % 2) = 1 /\ (b % 2) = 1 THEN 1 ELSE 0)
         + 2 * BitAnd(a \div 2, b \div 2)

\* ------------------------------------------------------ filesystem calls
\* Follow symlinks from p; NoPath when the chain does not end (ELOOP).
RECURSIVE Follow(_, _, _)
Follow(f, p, fuel) ==
    IF f[p].t = "link"
    THEN IF fuel = 0 THEN NoPath ELSE Follow(f, f[p].to, fuel - 1)
    ELSE p

Resolve(f, p) == Follow(f, p, Cardinality(Paths))

\* os.path.exists(p): follows symlinks, False for a broken or looping link.
path_exists(f, p) ==
    LET r == Resolve(f, p) IN r # NoPath /\ f[r].t = "file"

\* os.path.join(a, b): an absolute b discards a.
path_join(root, rel) ==
    IF rel.abs THEN <<rel.dir, rel.name>> ELSE <<root, rel.name>>

\* os.remove(p): unlinks the entry itself, never a symlink's target.
os_remove(f, p) == [f EXCEPT ![p] = Absent]

\* os.symlink(src, dst): fails when dst is present in any form.
os_symlink(f, src, dst) ==
    IF f[dst].t # "none"
    THEN [fs |-> f, err |-> "FileExistsError"]
    ELSE [fs |-> [f EXCEPT ![dst] = Link(src)], err |-> "none"]

\* shutil.copy2(src, dst): copyfile (following symlinks on both sides) and
\* copystat (the permission bits of the source).
shutil_copy2(f, d, src, dst) ==
    LET rs == Resolve(f, src)
        rd == Resolve(f, dst)
    IN  IF rs # NoPath /\ rd # NoPath /\ f[rs].t = "file" /\ rs = rd
        THEN [fs |-> f, err |-> "SameFileError"]
        ELSE IF rs = NoPath
        THEN [fs |-> f, err |-> "OSError"]
        ELSE IF f[rs].t # "file"
        THEN [fs |-> f, err |-> "FileNotFoundError"]
        ELSE IF rd = NoPath
        THEN [fs |-> f, err |-> "OSError"]
        ELSE IF rd[1] \notin d
        THEN [fs |-> f, err |-> "FileNotFoundError"]
        ELSE [fs |-> [f EXCEPT ![rd] = RegFile(f[rs].data, f[rs].mode)],
              err |-> "none"]

\* Variant: chmod to 0o111 without OR-ing the current mode in.
os_chmod_exec_clobber(f, dst) ==
    LET rd == Resolve(f, dst)
    IN  IF rd = NoPath
        THEN [fs |-> f, err |-> "OSError"]
        ELSE IF f[rd].t # "file"
        THEN [fs |-> f, err |-> "FileNotFoundError"]
        ELSE [fs |-> [f EXCEPT ![rd].mode = ExecBits], err |-> "none"]
\* os.chmod(dst, os.stat(dst).st_mode | 0o111): both follow symlinks.
os_chmod_exec(f, dst) ==
    LET rd == Resolve(f, dst)
    IN  IF rd = NoPath
        THEN [fs |-> f, err |-> "OSError"]
        ELSE IF f[rd].t # "file"
        THEN [fs |-> f, err |-> "FileNotFoundError"]
        ELSE [fs |-> [f EXCEPT ![rd].mode = BitOr(f[rd].mode, ExecBits)],
              err |-> "none"]

\* os.makedirs(dir): creates the directory and its missing parents.
os_makedirs(d, dir) ==
    d \cup {dir} \cup (IF dir = SubDir THEN {InstallRoot} ELSE {})

\* The destination after the placement step of _copy_file (before chmod).
Place(f, d, src, dst, sym, win) ==
    IF win
    THEN shutil_copy2(f, d, src, dst)
    ELSE LET f1 == IF path_exists(f, dst) THEN os_remove(f, dst) ELSE f
         IN  IF sym THEN os_symlink(f1, src, dst)
                    ELSE shutil_copy2(f1, d, src, dst)

\* _copy_file(src, dst, executable, symlink)
copy_file(f, d, src, dst, exe, sym, win) ==
    LET d1 == IF dst[1] \in d THEN d ELSE os_makedirs(d, dst[1])
        placed == Place(f, d1, src, dst, sym, win)
        line == IF ~win /\ sym THEN <<"link", src, dst>>
                                ELSE <<"copy", src, dst>>
    IN  IF placed.err # "none"
        THEN [fs |-> placed.fs, dirs |-> d1, out |-> <<line>>,
              err |-> placed.err]
        ELSE IF win \/ ~exe
        THEN [fs |-> placed.fs, dirs |-> d1, out |-> <<line>>, err |-> "none"]
        ELSE LET ch == os_chmod_exec(placed.fs, dst)
             IN  [fs |-> ch.fs, dirs |-> d1,
                  out |-> <<line, <<"+exe", dst>>>>, err |-> ch.err]

\* install_files: resolution of the install_path argument.
ResolveInstallPath(arg) ==
    IF arg = "None" THEN InstallRoot
    ELSE IF arg = "sub" THEN SubDir
    ELSE arg

Src(e) == path_join(e.root, e.rel)
Dst(e) == path_join(ResolveInstallPath(install_path), e.rel)

\* One iteration of the for loop of install_files; an exception raised by
\* _copy_file leaves the loop and install_files.
InstallStep ==
    /\ ipc = "running"
    /\ idx <= Len(files)
    /\ LET e == files[idx]
           r == copy_file(fs, dirs, Src(e), Dst(e), executable, symlink,
                          windows)
       IN  /\ fs' = r.fs
           /\ dirs' = r.dirs
           /\ iout' = iout \o r.out
           /\ IF r.err = "none"
              THEN idx' = idx + 1 /\ UNCHANGED <<ipc, ierr>>
              ELSE ipc' = "raised" /\ ierr' = r.err /\ UNCHANGED idx
    /\ UNCHANGED <<windows, files, install_path, symlink, executable>>
    /\ UNCHANGED evars

\* The for loop is exhausted: install_files returns.
InstallReturn ==
    /\ ipc = "running"
    /\ idx > Len(files)
    /\ ipc' = "returned"
    /\ UNCHANGED <<fs, dirs, windows, files, install_path, symlink,
                   executable, idx, ierr, iout>>
    /\ UNCHANGED evars

\* -------------------------------------------- installer: initial states
SrcModes == {420, 488}          \* 0o644, 0o750
Entries ==
    [root : {SourceRoot},
     rel : {RelName("a"), RelName("b"),
            AbsPath(<<SourceRoot, "a">>), AbsPath(<<InstallRoot, "a">>)}]
Batches == UNION {[1..n -> Entries] : n \in 0..MaxBatch}

\* What may sit at the destination of "a" before the call.
PriorDst ==
    {Absent, RegFile("old", 292),
     Link(<<SourceRoot, "a">>), Link(<<SourceRoot, "b">>),
     Link(<<Elsewhere, "a">>)}

InstallInit ==
    /\ windows \in BOOLEAN
    /\ symlink \in BOOLEAN
    /\ executable \in BOOLEAN
    /\ install_path \in {"None", "sub", InstallRoot}
    /\ files \in Batches
    /\ \E m \in SrcModes, b \in {Absent, RegFile("B", 384)}, prior \in PriorDst,
          x \in BOOLEAN, made \in BOOLEAN :
          LET D == ResolveInstallPath(install_path)
          IN  /\ made \/ prior = Absent
              /\ dirs = {SourceRoot}
                        \cup (IF x THEN {Elsewhere} ELSE {})
                        \cup (IF made THEN os_makedirs({}, D) ELSE {})
              /\ fs = [p \in Paths |->
                         IF p = <<SourceRoot, "a">> THEN RegFile("A", m)
                         ELSE IF p = <<SourceRoot, "b">> THEN b
                         ELSE IF p = <<D, "a">> THEN prior
                         ELSE Absent]
    /\ idx = 1
    /\ ipc = "running"
    /\ ierr = "none"
    /\ iout = <<>>

InstallIdle ==
    /\ windows = FALSE /\ symlink = FALSE /\ executable = FALSE
    /\ install_path = "None" /\ files = <<>>
    /\ dirs = {SourceRoot} /\ fs = [p \in Paths |-> Absent]
    /\ idx = 1 /\ ipc = "idle" /\ ierr = "none" /\ iout = <<>>

ExecIdle ==
    /\ desc = <<>> /\ syntax_ok = TRUE /\ build_env = FALSE
    /\ install_mode = FALSE /\ project_file = "unset"
    /\ epc = "idle" /\ exc = "none" /\ ns = {} /\ executed = <<>>
    /\ calls = <<>> /\ eout = <<>> /\ exit_status = -1 /\ traceback = FALSE

\* ------------------------------------------------- project descriptor
\* A node of the syntax tree: a function definition (its header, that is
\* decorators, default values and annotations, and its body may each refer
\* to a module-level name of the descriptor), a class, or another statement.
Def(n, h, b, k) == [kind |-> "def", name |-> n, hdr |-> h, body |-> b, kids |-> k]
Class(k) == [kind |-> "class", name |-> "K", hdr |-> FALSE, body |-> FALSE, kids |-> k]
Stmt == [kind |-> "stmt", name |-> "", hdr |-> FALSE, body |-> FALSE, kids |-> <<>>]

RoutineNames == {"build", "install"}
NestedDefs == {Def(n, FALSE, FALSE, <<>>) : n \in RoutineNames}
TopNodes ==
    {Def(n, h, b, <<>>) : n \in RoutineNames, h \in BOOLEAN, b \in BOOLEAN}
    \cup {Stmt}
    \cup {Def("helper", FALSE, FALSE, <<k>>) : k \in NestedDefs}
    \cup {Class(<<k>>) : k \in NestedDefs}
Descriptors == UNION {[1..n -> TopNodes] : n \in 0..MaxTop}

\* ast.walk: breadth-first, the children of a node appended to the queue.
RECURSIVE ast_walk(_)
ast_walk(queue) ==
    IF queue = <<>> THEN <<>>
    ELSE <<Head(queue)>> \o ast_walk(Tail(queue) \o Head(queue).kids)

\* The loop of extract_function: first FunctionDef of that name, 0 if none.
FindFunction(walk, function_name) ==
    LET hits == {i \in DOMAIN walk :
                    walk[i].kind = "def" /\ walk[i].name = function_name}
    IN  IF hits = {} THEN 0
        ELSE CHOOSE i \in hits : \A j \in hits : i <= j

\* Variant: the whole descriptor is executed to obtain the routine.
ExecTextAll(d, node) == d
\* What extract_function hands to exec(): the unparsed matched definition.
ExecText(d, node) == <<node>>

\* extract_function(project_file, function_name, optional)
extract_function(d, ok, function_name, optional) ==
    IF ~ok
    THEN [res |-> "raise", err |-> "SyntaxError", ns |-> {}, ran |-> <<>>,
          node |-> Stmt]
    ELSE LET walk == ast_walk(d)
             i == FindFunction(walk, function_name)
         IN  IF i = 0 /\ optional
             THEN [res |-> "none", err |-> "none", ns |-> {}, ran |-> <<>>,
                   node |-> Stmt]
             ELSE IF i = 0
             THEN [res |-> "raise", err |-> "ValueError", ns |-> {},
                   ran |-> <<>>, node |-> Stmt]
             ELSE IF walk[i].hdr
             THEN [res |-> "raise", err |-> "NameError",
                   ns |-> {"__builtins__"}, ran |-> ExecText(d, walk[i]),
                   node |-> walk[i]]
             ELSE [res |-> "func", err |-> "none",
                   ns |-> {"__builtins__", function_name},
                   ran |-> ExecText(d, walk[i]), node |-> walk[i]]

\* Outcomes of invoking an extracted routine with no arguments: a body that
\* refers to a module-level name fails on the lookup; any other body returns
\* or raises an error of its own.
CallOutcomes(node) ==
    IF node.body THEN {"NameError"}
    ELSE {"return", "DunkError", "RuntimeError"}

is_build == build_env

\* Variant: the install phase is entered whatever REZ_BUILD_INSTALL says.
is_install_always == TRUE
is_install == install_mode

\* ------------------------------------------------------- orchestrator
\* main() prints a blank line and enters execute(), up to the extraction of
\* the build routine.
ExecuteEnter ==
    /\ epc = "start"
    /\ eout' = Append(eout, "")
    /\ IF ~is_build
       THEN epc' = "raised" /\ exc' = "DunkError"
       ELSE IF project_file = "unset"
       THEN epc' = "raised" /\ exc' = "KeyError"
       ELSE IF project_file = "missing"
       THEN epc' = "raised" /\ exc' = "DunkError"
       ELSE epc' = "extract_build" /\ exc' = "none"
    /\ UNCHANGED <<desc, syntax_ok, build_env, install_mode, project_file,
                   ns, executed, calls, exit_status, traceback>>
    /\ UNCHANGED ivars

\* build_func = extract_function(project_file, "build", optional=True)
ExtractBuild ==
    /\ epc = "extract_build"
    /\ LET r == extract_function(desc, syntax_ok, "build", TRUE)
       IN  /\ ns' = r.ns
           /\ executed' = executed \o r.ran
           /\ calls' = Append(calls, <<"extract", "build", r.res>>)
           /\ IF r.res = "raise"
              THEN epc' = "raised" /\ exc' = r.err /\ UNCHANGED eout
              ELSE IF r.res = "func"
              THEN /\ epc' = "call_build"
                   /\ eout' = Append(eout, "Executing build function...")
                   /\ UNCHANGED exc
              ELSE epc' = "check_install" /\ UNCHANGED <<exc, eout>>
    /\ UNCHANGED <<desc, syntax_ok, build_env, install_mode, project_file,
                   exit_status, traceback>>
    /\ UNCHANGED ivars

\* The routine extract_function returned for this name.
Extracted(function_name) ==
    LET walk == ast_walk(desc) IN walk[FindFunction(walk, function_name)]

\* build_func()
CallBuild ==
    /\ epc = "call_build"
    /\ \E o \in CallOutcomes(Extracted("build")) :
          IF o = "return"
          THEN /\ epc' = "check_install"
               /\ calls' = Append(calls, <<"call", "build", "returned">>)
               /\ UNCHANGED exc
          ELSE /\ epc' = "raised" /\ exc' = o
               /\ calls' = Append(calls, <<"call", "build", "raised">>)
    /\ UNCHANGED <<desc, syntax_ok, build_env, install_mode, project_file,
                   ns, executed, eout, exit_status, traceback>>
    /\ UNCHANGED ivars

\* if is_install(): ... else execute() returns.
CheckInstall ==
    /\ epc = "check_install"
    /\ IF is_install
       THEN /\ epc' = "extract_install"
            /\ eout' = Append(eout, "Executing install function...")
       ELSE epc' = "returned" /\ UNCHANGED eout
    /\ UNCHANGED <<desc, syntax_ok, build_env, install_mode, project_file,
                   exc, ns, executed, calls, exit_status, traceback>>
    /\ UNCHANGED ivars

\* install_func = extract_function(project_file, "install")
ExtractInstall ==
    /\ epc = "extract_install"
    /\ LET r == extract_function(desc, syntax_ok, "install", FALSE)
       IN  /\ ns' = r.ns
           /\ executed' = executed \o r.ran
           /\ calls' = Append(calls, <<"extract", "install", r.res>>)
           /\ IF r.res = "raise"
              THEN epc' = "raised" /\ exc' = r.err
              ELSE IF r.res = "none"
              THEN epc' = "raised" /\ exc' = "DunkError"
              ELSE epc' = "call_install" /\ UNCHANGED exc
    /\ UNCHANGED <<desc, syntax_ok, build_env, install_mode, project_file,
                   eout, exit_status, traceback>>
    /\ UNCHANGED ivars

\* install_func()
CallInstall ==
    /\ epc = "call_install"
    /\ \E o \in CallOutcomes(Extracted("install")) :
          IF o = "return"
          THEN /\ epc' = "returned"
               /\ calls' = Append(calls, <<"call", "install", "returned">>)
               /\ UNCHANGED exc
          ELSE /\ epc' = "raised" /\ exc' = o
               /\ calls' = Append(calls, <<"call", "install", "raised">>)
    /\ UNCHANGED <<desc, syntax_ok, build_env, install_mode, project_file,
                   ns, executed, eout, exit_status, traceback>>
    /\ UNCHANGED ivars

\* main(): sys.exit(0) after execute() returned.
ExitSuccess ==
    /\ epc = "returned"
    /\ epc' = "exited"
    /\ exit_status' = 0
    /\ UNCHANGED <<desc, syntax_ok, build_env, install_mode, project_file,
                   exc, ns, executed, calls, eout, traceback>>
    /\ UNCHANGED ivars

\* main(): except DunkError -> message and sys.exit(1).
ExitDunkError ==
    /\ epc = "raised"
    /\ exc = "DunkError"
    /\ epc' = "exited"
    /\ eout' = Append(eout, "An error occurred")
    /\ exit_status' = 1
    /\ UNCHANGED <<desc, syntax_ok, build_env, install_mode, project_file,
                   exc, ns, executed, calls, traceback>>
    /\ UNCHANGED ivars

\* main(): any other exception leaves main() uncaught; the interpreter
\* prints the traceback and exits with status 1.
ExitUncaught ==
    /\ epc = "raised"
    /\ exc # "DunkError"
    /\ epc' = "exited"
    /\ traceback' = TRUE
    /\ exit_status' = 1
    /\ UNCHANGED <<desc, syntax_ok, build_env, install_mode, project_file,
                   exc, ns, executed, calls, eout>>
    /\ UNCHANGED ivars

ExecInit ==
    /\ desc \in Descriptors
    /\ syntax_ok \in BOOLEAN
    /\ build_env \in BOOLEAN
    /\ install_mode \in BOOLEAN
    /\ project_file \in {"unset", "missing", "present"}
    /\ epc = "start" /\ exc = "none" /\ ns = {} /\ executed = <<>>
    /\ calls = <<>> /\ eout = <<>> /\ exit_status = -1 /\ traceback = FALSE

InitExec == ExecInit /\ InstallIdle
NextExec ==
    \/ ExecuteEnter \/ ExtractBuild \/ CallBuild \/ CheckInstall
    \/ ExtractInstall \/ CallInstall
    \/ ExitSuccess \/ ExitDunkError \/ ExitUncaught
SpecExec == InitExec /\ [][NextExec]_vars

InitInstall == InstallInit /\ ExecIdle
NextInstall == InstallStep \/ InstallReturn
SpecInstall == InitInstall /\ [][NextInstall]_vars

\* ===================================================== properties
Stepping == ipc = "running" /\ idx <= Len(files)

\* An entry as find_files produces it: a relative path naming a file that
\* exists under its root.
ValidEntry(e) == ~e.rel.abs /\ path_exists(fs, Src(e))

\* Content and permission bits seen through a path (symlinks followed).
DataAt(f, p) ==
    LET r == Resolve(f, p)
    IN  IF r = NoPath \/ f[r].t # "file" THEN "<unreadable>" ELSE f[r].data
ModeAt(f, p) ==
    LET r == Resolve(f, p)
    IN  IF r = NoPath \/ f[r].t # "file" THEN -1 ELSE f[r].mode

InstallEvents == {k \in DOMAIN calls : calls[k][2] = "install"}
LastCall == calls[Len(calls)]
TopLevelDefs(n) ==
    {i \in DOMAIN desc : desc[i].kind = "def" /\ desc[i].name = n}

\* C1: an entry whose relative path is absolute makes install_files fail with
\* a PathError when the loop reaches it, and nothing on the filesystem is
\* created, removed or overwritten by that iteration.
C1_AbsoluteRejected ==
    [][(Stepping /\ files[idx].rel.abs)
        => (ipc' = "raised" /\ ierr' = "PathError" /\ fs' = fs)]_vars

\* C2: off Windows, installing a valid entry with symlink=true succeeds and
\* leaves the destination a symlink to the source, whatever was at the
\* destination before (nothing, a file, a valid symlink, a broken symlink).
C2_SymlinkAlwaysFresh ==
    [][(Stepping /\ ~windows /\ symlink /\ ValidEntry(files[idx]))
        => /\ ipc' = "running" /\ idx' = idx + 1
           /\ fs'[Dst(files[idx])] = Link(Src(files[idx]))]_vars

\* C3: on either platform branch, installing a valid entry with
\* symlink=false succeeds, the first time and every further time, and the
\* destination then reads byte for byte as the source, whatever was at the
\* destination before.
C3_CopyIdempotent ==
    [][(Stepping /\ ~symlink /\ ValidEntry(files[idx]))
        => /\ ipc' = "running" /\ idx' = idx + 1
           /\ DataAt(fs', Dst(files[idx])) = DataAt(fs, Src(files[idx]))]_vars

\* C4: extract_function only ever selects a top-level definition, the first
\* of that name in file order; a name defined only in a nested position is
\* reported as not found.
C4_TopLevelOnly ==
    \A k \in DOMAIN calls :
        (calls[k][1] = "extract" /\ calls[k][3] = "func")
        => /\ TopLevelDefs(calls[k][2]) # {}
           /\ \E i \in TopLevelDefs(calls[k][2]) :
                 /\ \A j \in TopLevelDefs(calls[k][2]) : i <= j
                 /\ Extracted(calls[k][2]) = desc[i]

\* C5: the install routine is extracted and invoked at most once, only in
\* install mode and only after the build phase ended without failure (build
\* absent, or invoked and returned); with install mode off the run never
\* enters the install phase, and a failure in the build phase means install
\* is neither extracted nor invoked.
C5_InstallAfterBuild ==
    /\ Cardinality({k \in InstallEvents : calls[k][1] = "extract"}) <= 1
    /\ Cardinality({k \in InstallEvents : calls[k][1] = "call"}) <= 1
    /\ \A k \in InstallEvents :
          /\ install_mode
          /\ k > 1
          /\ \/ calls[1] = <<"extract", "build", "none">>
             \/ /\ calls[1] = <<"extract", "build", "func">>
                /\ k > 2
                /\ calls[2] = <<"call", "build", "returned">>
          /\ calls[k][1] = "call" => calls[k - 1] = <<"extract", "install", "func">>
    /\ (\E j \in DOMAIN calls :
           calls[j][2] = "build" /\ calls[j][3] \in {"raise", "raised"})
       => InstallEvents = {}
    /\ ~install_mode => epc \notin {"extract_install", "call_install"}
    /\ epc \in {"extract_install", "call_install"}
       => (calls # <<>> /\ exc = "none")

C5_Witness ==
    /\ epc = "exited"
    /\ exit_status = 0
    /\ calls = << <<"extract", "build", "func">>, <<"call", "build", "returned">>,
                  <<"extract", "install", "func">>,
                  <<"call", "install", "returned">> >>

\* C6: in install mode a descriptor without an install routine ends the run
\* with a DunkError-class failure: main prints "An error occurred" and exits
\* with status 1, without a traceback.
C6_MissingInstallReported ==
    (/\ epc = "exited"
     /\ syntax_ok
     /\ calls # <<>>
     /\ LastCall = <<"extract", "install", "raise">>
     /\ FindFunction(ast_walk(desc), "install") = 0)
    => /\ exit_status = 1
       /\ ~traceback
       /\ \E i \in DOMAIN eout : eout[i] = "An error occurred"

\* C7 as stated: a reference to a name defined elsewhere in the descriptor
\* never fails during extract_function, only when the routine is called.
C7_NoFailureAtExtraction ==
    ~(calls # <<>> /\ LastCall[1] = "extract" /\ exc = "NameError")

\* C7 amended: extraction executes nothing but the one matched definition
\* and binds only its name in the fresh namespace; a module-level name used
\* in the routine's body fails lazily at call time, one used in its header
\* (decorator, default value, annotation) fails during extract_function.
C7_IsolatedExtraction ==
    /\ \A i \in DOMAIN executed :
          /\ executed[i].kind = "def"
          /\ executed[i].name \in RoutineNames
          /\ executed[i] = Extracted(executed[i].name)
    /\ Len(executed) <= Cardinality({k \in DOMAIN calls : calls[k][1] = "extract"})
    /\ \A k \in DOMAIN calls :
          (calls[k][1] = "extract" /\ syntax_ok
           /\ FindFunction(ast_walk(desc), calls[k][2]) # 0)
          => (calls[k][3] = "raise") = Extracted(calls[k][2]).hdr
    /\ (calls # <<>> /\ LastCall[1] = "extract" /\ LastCall[3] = "func")
       => ns \ {"__builtins__"} = {LastCall[2]}
    /\ (calls # <<>> /\ LastCall[1] = "extract" /\ exc = "NameError")
       => (executed # <<>> /\ executed[Len(executed)].hdr)
    /\ (calls # <<>> /\ LastCall[1] = "call" /\ exc = "NameError")
       => (Extracted(LastCall[2]).body /\ ~Extracted(LastCall[2]).hdr)

C7_Witness ==
    /\ epc = "exited"
    /\ exc = "NameError"
    /\ calls = << <<"extract", "build", "func">>, <<"call", "build", "returned">>,
                  <<"extract", "install", "raise">> >>
    /\ Len(desc) = 2 /\ Len(executed) = 2

\* C8: when the installation of entry k fails, the destinations of entries
\* 1..k-1 stay as they are, the failure is what install_files raises, and
\* nothing is done for the entries after k.
C8_NoRollback ==
    [][/\ (Stepping /\ ipc' = "raised")
          => \A j \in 1..(idx - 1) :
                fs'[Dst(files[j])] = fs[Dst(files[j])]
       /\ ipc = "raised" => (fs' = fs /\ ierr' = ierr)]_vars

\* C9: off Windows, after a successful install of an entry the destination's
\* permission bits are, with executable=true, the bits it had after placement
\* OR 0o111 (all three execute bits set, no bit cleared), and with
\* executable=false exactly the bits it had after placement.
C9_ExecBitsOnlyAdded ==
    [][(Stepping /\ ~windows /\ ipc' = "running" /\ idx' = idx + 1)
        => LET e == files[idx]
               placed == Place(fs, dirs', Src(e), Dst(e), symlink, windows)
               before == ModeAt(placed.fs, Dst(e))
               after == ModeAt(fs', Dst(e))
           IN  IF executable
               THEN /\ before >= 0 /\ after >= 0
                    /\ after = BitOr(before, ExecBits)
                    /\ BitAnd(after, ExecBits) = ExecBits
                    /\ BitAnd(after, before) = before
               ELSE after = before]_vars

C9_Witness ==
    /\ ipc = "returned"
    /\ ~windows /\ executable /\ ~symlink
    /\ Len(files) = 1
    /\ iout[Len(iout)] = <<"+exe", Dst(files[1])>>
    /\ ModeAt(fs, Src(files[1])) = 420
    /\ ModeAt(fs, Dst(files[1])) = 493

\* C10: no step of install_files changes a source file named by an entry of
\* the batch: it keeps existing with the same content and permission bits.
C10_SourcesUntouched ==
    [][\A i \in DOMAIN files :
          fs[Src(files[i])].t = "file"
          => fs'[Src(files[i])] = fs[Src(files[i])]]_vars

====
